---------------------------- MODULE Spec2Model ----------------------------
(***************************************************************************)
(* JSPad: the code-execution worker (code-executor.worker.ts) and the host *)
(* hook that drives it (useCodeExecution.ts).                              *)
(*                                                                         *)
(* A worker is one single-threaded event loop.  A task of the loop (the    *)
(* message listener, a timer callback) runs to completion before the next  *)
(* task starts; the user script is an arbitrary sequence of calls of the   *)
(* shimmed console / timer functions, one action per call.  The host runs  *)
(* concurrently with the worker and talks to it through two message        *)
(* queues.  Time is abstract: a timer that is armed may fire whenever the  *)
(* loop is idle.                                                           *)
(***************************************************************************)
EXTENDS Integers, Sequences, FiniteSets, TLC

VARIABLES
    worker,         \* the workers the hook has created, by number
    workerRef,      \* workerRef.current (0: null)
    created,        \* workers created so far
    mounted,        \* the hook is mounted
    consoleOutput,  \* the transcript the last onOutput call handed over
    callbacks,      \* history: onOutput calls per worker
    stale,          \* history: onOutput was called for a retired run
    limit,          \* the exploration budget of this behaviour
    code,           \* the source the hook is rendered with (its version)
    autoExecute,    \* the autoExecute option the hook is rendered with
    autoRun,        \* timeoutRef.current and the host's pending timers
    autoRuns,       \* history: runs the timer started since the last
                    \* render that changed a dependency of the effect
    ranCode,        \* history: the source of the latest run
    tabs,           \* useTabs: the ids of the tabs, in order
    activeTabId,    \* useTabs: the id of the active tab
    tabIds          \* ids nanoid() has handed out

editor == <<code, autoExecute, autoRun, autoRuns, ranCode>>

tabVars == <<tabs, activeTabId, tabIds>>

vars == <<worker, workerRef, created, mounted, consoleOutput, callbacks,
          stale, limit, editor, tabVars>>

(* ------------------------------ bounds -------------------------------- *)

\* executeCode calls of one mounted hook
MaxRuns == 2
\* records a script appends in one run
MaxRecords == 3
\* timers / intervals a script registers in one run
MaxUserTimers == 2

\* {type: 'terminate'} messages posted to one worker
MaxTerminates == 1

\* code-executor.worker.ts:18
MAX_LOGS == 1000

\* dialog calls (alert, confirm, prompt) of the script that fills the
\* transcript
MaxDialogs == 1

\* edits of the source
MaxEdits == 2

\* times the auto-execute effect arms its timer
MaxArms == 3

\* ids nanoid() hands out
MaxTabIds == 10

\* promises and other thenables a script logs in one run
MaxThenables == 1

\* exceptions of timer callbacks that are reported to a host that listens
MaxReports == 1

\* Values a script passes to a console function: a primitive, an object
\* that JSON.stringify serialises, an object with a cycle, a promise, an
\* object with a then method that keeps the handlers it is given and calls
\* them when and as often as it likes, and one that moreover calls
\* onFulfilled at once, before then returns.
Args == {"prim", "obj", "cyclic", "promise", "thenable", "eager"}

\* A behaviour explores one run of a script that logs much, one run of a
\* script that registers several timers, several runs of a small script,
\* two runs of a small script with terminate requests, one run of a
\* script that first logs in a loop until the transcript is one record
\* short of MAX_LOGS (loop) and then goes on call by call, one run of
\* a small script under the revision of the hook that sets worker.onerror
\* (src/unnamed/part_002; useCodeExecution.ts sets no such handler), or
\* one run of a script that logs values of every kind (args), two runs of
\* an empty script while the user edits the source with auto-execute on
\* (edits, arms, auto), or no run while the user works on the tabs (ids).
Profiles ==
    { [runs |-> 1, records |-> MaxRecords, timers |-> 1, terms |-> 0,
       loop |-> 0, dialogs |-> 0, onerror |-> FALSE,
       args |-> {"prim"},
       edits |-> 0, arms |-> 0, auto |-> FALSE, ids |-> 1],
      [runs |-> 1, records |-> 1, timers |-> MaxUserTimers, terms |-> 0,
       loop |-> 0, dialogs |-> 0, onerror |-> FALSE,
       args |-> {"prim"},
       edits |-> 0, arms |-> 0, auto |-> FALSE, ids |-> 1],
      [runs |-> MaxRuns, records |-> 1, timers |-> 0, terms |-> 0,
       loop |-> 0, dialogs |-> 0, onerror |-> FALSE,
       args |-> {"prim"},
       edits |-> 0, arms |-> 0, auto |-> FALSE, ids |-> 1],
      [runs |-> 2, records |-> 1, timers |-> 1, terms |-> MaxTerminates,
       loop |-> 0, dialogs |-> 0, onerror |-> FALSE,
       args |-> {"prim"},
       edits |-> 0, arms |-> 0, auto |-> FALSE, ids |-> 1],
      [runs |-> 1, records |-> MAX_LOGS + 2, timers |-> 0, terms |-> 0,
       loop |-> MAX_LOGS - 1, dialogs |-> MaxDialogs, onerror |-> FALSE,
       args |-> {"prim"},
       edits |-> 0, arms |-> 0, auto |-> FALSE, ids |-> 1],
      [runs |-> 1, records |-> 1, timers |-> 1, terms |-> 0,
       loop |-> 0, dialogs |-> 0, onerror |-> TRUE, args |-> {"prim"},
       edits |-> 0, arms |-> 0, auto |-> FALSE, ids |-> 1],
      [runs |-> 1, records |-> 2, timers |-> 0, terms |-> 0,
       loop |-> 0, dialogs |-> 0, onerror |-> FALSE, args |-> Args,
       edits |-> 0, arms |-> 0, auto |-> FALSE, ids |-> 1],
      [runs |-> 2, records |-> 0, timers |-> 0, terms |-> 0,
       loop |-> 0, dialogs |-> 0, onerror |-> FALSE, args |-> {"prim"},
       edits |-> MaxEdits, arms |-> MaxArms, auto |-> TRUE, ids |-> 1],
      [runs |-> 0, records |-> 0, timers |-> 0, terms |-> 0,
       loop |-> 0, dialogs |-> 0, onerror |-> FALSE, args |-> {"prim"},
       edits |-> 0, arms |-> 0, auto |-> FALSE, ids |-> MaxTabIds] }

Workers == 1..(IF MaxRuns > 2 THEN MaxRuns ELSE 2)

\* timer ids of one worker: the safety timer, the grace timer, the poll
\* interval and the script's own timers draw from one id counter
Handles == 1..(MaxUserTimers + 3)

(* ------------------------------ helpers ------------------------------- *)

IsPrefix(a, b) == Len(a) <= Len(b) /\ SubSeq(b, 1, Len(a)) = a

Last(q) == q[Len(q)]

\* ConsoleMessage; seq is history: the number of the producing call
\* within the run
Record(type, content, seq) ==
    [type |-> type, content |-> content, seq |-> seq]

(* --------------------------- worker state ----------------------------- *)

\* module state of a worker right after the script file has been loaded
FreshWorker ==
    [ status        |-> "none",      \* none | live | terminated
      inbox         |-> <<>>,        \* messages posted by the host
      outbox        |-> <<>>,        \* messages posted to the host, in flight
      logs          |-> <<>>,
      pendingTimers |-> {},
      timers        |-> [h \in Handles |-> "off"],  \* the platform's timers
      nextId        |-> 1,
      safetyTimeout |-> 0,
      checkInterval |-> 0,
      phase         |-> "none",      \* executeAsync: none|body|grace|poll|done
      awaiting      |-> FALSE,       \* the script body is suspended at an await
      wake          |-> FALSE,       \* the awaited promise has been resolved
      stack         |-> <<>>,        \* the running synchronous code
      spin          |-> FALSE,       \* it is in a loop that never ends
      made          |-> 0,           \* timers registered by the script
      promises      |-> 0,           \* logged promises that are not settled
      thenables     |-> 0,           \* logged thenables that hold the handlers
      calls         |-> 0,           \* history: producing calls so far
      emitted       |-> 0,           \* history: sendResults calls
      reported      |-> 0,           \* history: error events sent to the host
      timedOut      |-> FALSE,       \* history: the safety timer has fired
      lateCb        |-> FALSE,       \* history: a user callback ran after it
      uncleared     |-> FALSE,       \* history: it had to cancel an interval
      closing       |-> FALSE,       \* self.close() has been called
      termSeen      |-> 0,           \* history: terminate messages handled
      afterClose    |-> 0,           \* history: sendResults calls after that
      armedAtClose  |-> FALSE,       \* history: safetyTimeout was armed then
      dropped       |-> FALSE ]      \* history: terminate() discarded messages

\* A worker that will never run a task again (it closed itself, or its
\* code is in an endless loop) keeps only what can still be observed: the
\* messages in flight and the history.
Inert(s) ==
    [FreshWorker EXCEPT !.status = s.status,
                        !.inbox = s.inbox,
                        !.outbox = s.outbox,
                        !.phase = s.phase,
                        !.emitted = s.emitted,
                        !.timedOut = s.timedOut,
                        !.lateCb = s.lateCb,
                        !.termSeen = s.termSeen,
                        !.afterClose = s.afterClose]

\* what the running code knows of its last dialog call: the function, the
\* default value it passed and the value the call returned (JavaScript
\* values are written as their literals)
NoDialog == [fn |-> "none", default |-> "undefined", value |-> "undefined"]

Frame(kind, h) ==
    [kind |-> kind, h |-> h, registered |-> {}, dialog |-> NoDialog]

Top(s) == s.stack[Len(s.stack)]

Running(s) == s.status = "live" /\ ~s.closing /\ s.stack # <<>> /\ ~s.spin

\* the event loop can start a task
Idle(s) ==
    /\ s.status = "live" /\ ~s.closing
    /\ s.stack = <<>> /\ ~s.spin
    /\ ~(s.awaiting /\ s.wake)

\* the platform's setTimeout / setInterval: a new timer under the next id
ArmTimer(s, kind) ==
    [s EXCEPT !.timers[s.nextId] = kind, !.nextId = s.nextId + 1]

\* the platform's clearTimeout / clearInterval (they share the id space)
Disarm(s, id) ==
    IF id \in Handles THEN [s EXCEPT !.timers[id] = "off"] ELSE s

RECURSIVE DisarmAll(_, _)
DisarmAll(s, ids) ==
    IF ids = {} THEN s
    ELSE LET id == CHOOSE x \in ids : TRUE
         IN  DisarmAll(Disarm(s, id), ids \ {id})

\* logs.push({type, content})
Push(s, type, content) ==
    [s EXCEPT !.logs = Append(@, Record(type, content, s.calls + 1)),
              !.calls = s.calls + 1]

\* the running code returns or throws: its frame leaves the stack
Pop(s) == [s EXCEPT !.stack = SubSeq(@, 1, Len(@) - 1)]

(* ------------------- console shims (worker lines 32-94) ---------------- *)

\* arg && typeof arg === 'object' && typeof arg.then === 'function'
IsThenable(arg) == arg \in {"promise", "thenable", "eager"}

\* String(arg); a rendering is written as the conversion and its argument
StringOf(arg) == IF arg = "prim" THEN "user" ELSE "String(" \o arg \o ")"

\* JSON.stringify(arg, null, 2)
JSONstringify(arg) ==
    IF arg = "cyclic" THEN "throws" ELSE "JSON(" \o arg \o ")"

Placeholder == "Promise { <pending> }"

\* console.log of one string that reads content
consoleLogOf(s, content) ==
    IF Len(s.logs) >= MAX_LOGS
    THEN IF Len(s.logs) = MAX_LOGS THEN Push(s, "warn", "limit") ELSE s
    ELSE Push(s, "log", content)

\* console.error of one string that reads content
consoleErrorOf(s, content) ==
    IF Len(s.logs) >= MAX_LOGS + 1 THEN s ELSE Push(s, "error", content)

\* the handlers console.log passes to arg.then (lines 52-60)
onFulfilled(s) == consoleLogOf(s, "Promise resolved")

onRejected(s) == consoleErrorOf(s, "Promise rejected")

\* arg.then(onFulfilled, onRejected) (lines 51-61)
thenCall(s, arg) ==
    CASE arg = "promise"  -> [s EXCEPT !.promises = @ + 1]
      [] arg = "thenable" -> [s EXCEPT !.thenables = @ + 1]
      [] arg = "eager"    -> [onFulfilled(s) EXCEPT !.thenables = @ + 1]

\* what args.map of console.log makes of arg (lines 43-74)
LogContent(arg) ==
    IF IsThenable(arg) THEN Placeholder
    ELSE IF arg \in {"obj", "cyclic"}
         THEN IF JSONstringify(arg) = "throws" THEN StringOf(arg)
              ELSE JSONstringify(arg)
         ELSE StringOf(arg)

consoleLog(s, arg) ==
    IF Len(s.logs) >= MAX_LOGS
    THEN IF Len(s.logs) = MAX_LOGS THEN Push(s, "warn", "limit") ELSE s
    ELSE IF IsThenable(arg)
         THEN Push(thenCall(s, arg), "log", LogContent(arg))
         ELSE Push(s, "log", LogContent(arg))

\* for (...) console.log(...): n calls in a row (the first half of them,
\* then the rest)
RECURSIVE consoleLogLoop(_, _)
consoleLogLoop(s, n) ==
    IF n = 0 THEN s
    ELSE IF n = 1 THEN consoleLog(s, "prim")
    ELSE LET half == consoleLogLoop(s, n \div 2)
         IN  IF half.calls >= 0
             THEN consoleLogLoop(half, n - (n \div 2)) ELSE half

\* a variant that puts the record in front (unshift for push)
consoleError_Unshift(s, arg) ==
    IF Len(s.logs) >= MAX_LOGS + 1 THEN s
    ELSE [s EXCEPT !.logs = <<Record("error", StringOf(arg), s.calls + 1)>>
                                \o @,
                   !.calls = s.calls + 1]

consoleError(s, arg) ==
    IF Len(s.logs) >= MAX_LOGS + 1 THEN s
    ELSE Push(s, "error", StringOf(arg))

consoleWarn(s, arg) ==
    IF Len(s.logs) >= MAX_LOGS + 1 THEN s
    ELSE Push(s, "warn", StringOf(arg))

(* ------------------- dialog shims (worker lines 97-110) ---------------- *)

Dialogs == {"[alert]", "[confirm]", "[prompt]"}

\* default values a script passes to prompt ("undefined": none)
Defaults == {"undefined", "'abc'", "''", "0", "1"}

\* !value
Falsy(value) == value \in {"undefined", "''", "0"}

\* the call returns value to the running code
Returns(s, fn, default, value) ==
    [s EXCEPT !.stack[Len(s.stack)].dialog =
                  [fn |-> fn, default |-> default, value |-> value]]

alert(s) == Returns(consoleLogOf(s, "[alert]"), "alert", "undefined",
                    "undefined")

confirm(s) == Returns(consoleLogOf(s, "[confirm]"), "confirm", "undefined",
                      "true")

\* const value = defaultValue || ''
prompt(s, defaultValue) ==
    LET value == IF Falsy(defaultValue) THEN "''" ELSE defaultValue
    IN  Returns(consoleLogOf(s, "[prompt]"), "prompt", defaultValue, value)

(* -------------------- timer shims (worker lines 113-145) --------------- *)

Register(s, kind) ==
    [ArmTimer(s, kind) EXCEPT
        !.pendingTimers = @ \cup {s.nextId},
        !.made = @ + 1,
        !.stack[Len(s.stack)].registered = @ \cup {s.nextId}]

\* a variant that calls the callback at once instead of handing it to the
\* platform's timer
setTimeoutShim_CallsNow(s) ==
    [Register(s, "timeout") EXCEPT
        !.timers[s.nextId] = "off",
        !.stack = Append(@, Frame("timeout", s.nextId))]

setTimeoutShim(s) == Register(s, "timeout")

setIntervalShim(s) == Register(s, "interval")

\* a variant that forgets every pending handle (clear for delete)
clearTimeoutShim_ClearsAll(s, id) ==
    [Disarm(s, id) EXCEPT !.pendingTimers = {}]

clearTimeoutShim(s, id) ==
    [Disarm(s, id) EXCEPT !.pendingTimers = @ \ {id}]

clearIntervalShim(s, id) ==
    [Disarm(s, id) EXCEPT !.pendingTimers = @ \ {id}]

\* wrappedCallback starts: the one-shot timer is spent, callback(...args) runs
startTimeoutCallback(s, h) ==
    [s EXCEPT !.timers[h] = "off",
              !.stack = Append(@, Frame("timeout", h)),
              !.lateCb = @ \/ s.timedOut]

\* an interval fires: the user callback runs, the interval stays armed
startIntervalCallback(s, h) ==
    [s EXCEPT !.stack = Append(@, Frame("interval", h)),
              !.lateCb = @ \/ s.timedOut]

\* the callback is over (it returned or threw); wrappedCallback's finally
\* deletes the handle of a one-shot timer
endCallback(s) ==
    IF Top(s).kind = "timeout"
    THEN [Pop(s) EXCEPT !.pendingTimers = @ \ {Top(s).h}]
    ELSE Pop(s)

\* the error event the platform fires at the Worker object for an
\* exception that nothing in the worker caught
ErrorEvent == [type |-> "error", logs |-> <<>>, path |-> "uncaught"]

\* a variant that deletes the handle behind the call instead of in a
\* finally block
callbackThrown_NoFinally(s, listened) == Pop(s)

\* the callback threw: wrappedCallback's finally runs and the exception
\* leaves the task uncaught; the platform reports it to the Worker object,
\* where it is dispatched if the hook has set onerror (listened)
callbackThrown(s, listened) ==
    IF listened
    THEN [endCallback(s) EXCEPT !.outbox = Append(@, ErrorEvent),
                                !.reported = @ + 1]
    ELSE endCallback(s)

(* ------------------- the session (worker lines 149-223) ---------------- *)

sendResults(s, path) ==
    [s EXCEPT !.outbox = Append(@, [type |-> "complete", logs |-> s.logs,
                                     path |-> path]),
              !.emitted = @ + 1,
              !.afterClose = IF s.termSeen > 0 THEN @ + 1 ELSE @]

\* the callback of safetyTimeout (lines 174-182)
safetyTimeoutCallback(s) ==
    LET s1 == DisarmAll([s EXCEPT !.timers[s.safetyTimeout] = "off"],
                        s.pendingTimers)
    IN  sendResults([s1 EXCEPT !.pendingTimers = {}, !.timedOut = TRUE,
                               !.uncleared = \E h \in s.pendingTimers :
                                                s.timers[h] = "interval"],
                    "timeout")

\* a variant that completes after the grace period whatever is pending
afterGrace_NoCheck(s, h) ==
    [sendResults(Disarm([s EXCEPT !.timers[h] = "off"], s.safetyTimeout),
                 "fast")
        EXCEPT !.phase = "done"]

\* executeAsync after the grace period (lines 195-209)
afterGrace(s, h) ==
    LET s1 == [s EXCEPT !.timers[h] = "off"]
    IN  IF s1.pendingTimers = {}
        THEN [sendResults(Disarm(s1, s1.safetyTimeout), "fast")
                 EXCEPT !.phase = "done"]
        ELSE [ArmTimer(s1, "poll") EXCEPT !.checkInterval = s1.nextId,
                                          !.phase = "poll"]

\* a variant that completes without cancelling the interval
checkIntervalCallback_KeepsPolling(s) ==
    IF s.pendingTimers = {}
    THEN [sendResults(Disarm(s, s.safetyTimeout), "poll")
             EXCEPT !.phase = "done"]
    ELSE s

\* the callback of checkInterval (lines 201-208)
checkIntervalCallback(s) ==
    IF s.pendingTimers = {}
    THEN [sendResults(Disarm(Disarm(s, s.checkInterval), s.safetyTimeout),
                      "poll")
             EXCEPT !.phase = "done"]
    ELSE s

\* a variant that leaves safetyTimeout armed
executeAsyncCatch_KeepsTimer(s) ==
    [sendResults(Push(s, "error", "exception"), "error")
        EXCEPT !.phase = "done"]

\* executeAsync's catch (lines 210-218)
executeAsyncCatch(s) ==
    [sendResults(Push(Disarm(s, s.safetyTimeout), "error", "exception"),
                 "error")
        EXCEPT !.phase = "done"]

\* the script's promise resolved: executeAsync arms the grace timer
\* (lines 188-193)
bodyResolved(s) == [ArmTimer(Pop(s), "grace") EXCEPT !.phase = "grace"]

\* a variant that records the reason and then settles like a resolved run
bodyRejected_Settles(s) ==
    [ArmTimer(Push(Pop(s), "error", "exception"), "grace")
        EXCEPT !.phase = "grace"]

\* the script's promise rejected
bodyRejected(s) == executeAsyncCatch(Pop(s))

\* the listener's execute branch (lines 160-221); compiles: new Function
\* accepted the source
executeBranch(s, compiles) ==
    LET s1 == [ArmTimer([s EXCEPT !.logs = <<>>, !.pendingTimers = {}],
                        "safety")
                  EXCEPT !.safetyTimeout = s.nextId, !.phase = "body"]
    IN  IF compiles
        THEN [s1 EXCEPT !.stack = Append(@, Frame("main", 0))]
        ELSE executeAsyncCatch(s1)

\* a variant that returns without self.close()
terminateBranch_NoClose(s) == [s EXCEPT !.termSeen = @ + 1]

\* the listener's terminate branch (lines 154-158): self.close()
terminateBranch(s) ==
    [Inert(s) EXCEPT !.closing = TRUE,
                     !.termSeen = @ + 1,
                     !.armedAtClose = (s.safetyTimeout # 0
                                       /\ s.timers[s.safetyTimeout] = "safety")]

(* ------------- the host hook (useCodeExecution.ts lines 11-73) --------- *)

\* Worker.terminate(): the worker stops at once, whatever it was running,
\* and the messages it posted that were not dispatched yet are discarded
workerTerminate(s) ==
    [FreshWorker EXCEPT !.status = "terminated",
                        !.dropped = (s.outbox # <<>>)]

\* a variant that leaves the previous worker running
terminateCurrent_Skip(wk, ref) == wk

\* if (workerRef.current) workerRef.current.terminate()
terminateCurrent(wk, ref) ==
    IF ref # 0 /\ wk[ref].status = "live"
    THEN [wk EXCEPT ![ref] = workerTerminate(wk[ref])]
    ELSE wk

\* new Worker(...); postMessage({type: 'execute', code, timeout})
newWorker == [FreshWorker EXCEPT !.status = "live", !.inbox = <<"execute">>]

\* [{type: 'error', content: `Worker error: ...`}]
WorkerError == [logs |-> <<Record("error", "Worker error", 0)>>]

\* onOutput(event.data.logs): the transcript replaces the one on display
onOutput(w, msg) == [w |-> w, logs |-> msg.logs]

\* the host's setTimeout of the effect (lines 50-52): a timer under a new
\* id whose callback calls the executeCode of the render with source src
armAutoRun(a, src) ==
    [a EXCEPT !.timers = @ \cup {[id |-> a.nextId, code |-> src]},
              !.timeoutRef = a.nextId,
              !.nextId = @ + 1]

\* if (timeoutRef.current) clearTimeout(timeoutRef.current)
clearAutoRun(a) == [a EXCEPT !.timers = {t \in @ : t.id # a.timeoutRef}]

\* the auto-execute effect (lines 43-53) of a render with source src
autoExecuteEffect(a, on, src) ==
    IF ~on THEN a ELSE armAutoRun(clearAutoRun(a), src)

\* a variant that runs the effect without cancelling anything
dependenciesChanged_NoClear(a, wasOn, on, src) ==
    IF ~on THEN a ELSE armAutoRun(a, src)

\* a render in which code, autoExecute or executeCode differs from the
\* render before: the cleanup the last effect returned runs (lines 54-58;
\* the effect returns none while autoExecute is off), then the effect
dependenciesChanged(a, wasOn, on, src) ==
    autoExecuteEffect(IF wasOn THEN clearAutoRun(a) ELSE a, on, src)

\* timeoutRef and the timers after the hook's first render
mountEffect(on, src) ==
    autoExecuteEffect([timeoutRef |-> 0, timers |-> {}, nextId |-> 1],
                      on, src)

(* ---------------- the tabs (src/unnamed/part_004 lines 1-118) ----------- *)

MAX_TABS == 10

Range(q) == {q[i] : i \in DOMAIN q}

Min(a, b) == IF a <= b THEN a ELSE b

\* currentTabs.findIndex(t => t.id === tabId), counted from 1 (0: none)
findIndex(t, tabId) ==
    IF tabId \in Range(t) THEN CHOOSE i \in DOMAIN t : t[i] = tabId ELSE 0

\* currentTabs.filter(t => t.id !== tabId)
filterOut(t, tabId) == SelectSeq(t, LAMBDA x : x # tabId)

\* a variant without the limit
createTab_NoLimit(t, a, id) ==
    [tabs |-> Append(t, id), activeTabId |-> id]

\* createTab (lines 25-40); id is the value of nanoid()
createTab(t, a, id) ==
    IF Len(t) >= MAX_TABS
    THEN [tabs |-> t, activeTabId |-> a]
    ELSE [tabs |-> Append(t, id), activeTabId |-> id]

\* a variant that activates the tab before the closed one
closeTab_Previous(t, a, tabId) ==
    IF Len(t) = 1
    THEN [tabs |-> t, activeTabId |-> a, result |-> "quit-app"]
    ELSE LET tabIndex == findIndex(t, tabId)
             newTabs == filterOut(t, tabId)
         IN  [tabs |-> newTabs,
              activeTabId |-> IF a = tabId
                              THEN newTabs[IF tabIndex > 1 THEN tabIndex - 1
                                           ELSE 1]
                              ELSE a,
              result |-> "closed"]

\* closeTab (lines 42-64); result is the value it returns
closeTab(t, a, tabId) ==
    IF Len(t) = 1
    THEN [tabs |-> t, activeTabId |-> a, result |-> "quit-app"]
    ELSE LET tabIndex == findIndex(t, tabId)
             newTabs == filterOut(t, tabId)
         IN  [tabs |-> newTabs,
              activeTabId |-> IF a = tabId
                              THEN newTabs[Min(tabIndex, Len(newTabs))]
                              ELSE a,
              result |-> "closed"]

(* ------------------------------------------------------------------------ *)

Init ==
    /\ worker = [w \in Workers |-> FreshWorker]
    /\ workerRef = 0
    /\ created = 0
    /\ mounted = TRUE
    /\ consoleOutput = [w |-> 0, logs |-> <<>>]
    /\ callbacks = [w \in Workers |-> 0]
    /\ stale = FALSE
    /\ limit \in Profiles
    /\ code = 0
    /\ autoExecute = limit.auto
    /\ autoRun = mountEffect(limit.auto, 0)
    /\ autoRuns = 0
    /\ ranCode = 0
    /\ tabs = <<1>>
    /\ activeTabId = 1
    /\ tabIds = 1

Set(w, s) ==
    /\ worker' = [worker EXCEPT ![w] = s]
    /\ UNCHANGED <<workerRef, created, mounted, consoleOutput, callbacks,
                   stale, limit, editor, tabVars>>

(* ------------------------------ host actions --------------------------- *)

\* a variant that hands the next request to the worker of the previous run
executeCode_Reuse ==
    /\ mounted
    /\ created < limit.runs
    /\ IF workerRef # 0 /\ worker[workerRef].status = "live"
       THEN /\ worker' = [worker EXCEPT
                             ![workerRef].inbox = Append(@, "execute")]
            /\ workerRef' = workerRef
       ELSE /\ worker' = [worker EXCEPT ![created + 1] = newWorker]
            /\ workerRef' = created + 1
    /\ created' = created + 1
    /\ ranCode' = code
    /\ UNCHANGED <<mounted, consoleOutput, callbacks, stale, limit, code,
                   autoExecute, autoRun, autoRuns, tabVars>>

\* the body of executeCode (lines 21-40) in a render with source src
postExecute(src) ==
    /\ created < limit.runs
    /\ worker' = [terminateCurrent(worker, workerRef)
                     EXCEPT ![created + 1] = newWorker]
    /\ workerRef' = created + 1
    /\ created' = created + 1
    /\ ranCode' = src
    /\ UNCHANGED <<mounted, consoleOutput, callbacks, stale, limit, code,
                   autoExecute, tabVars>>

\* the user runs the code (the Run button, or Cmd+Enter)
executeCode ==
    /\ mounted
    /\ postExecute(code)
    /\ UNCHANGED <<autoRun, autoRuns>>

\* the timer of the auto-execute effect fires (lines 50-52)
autoRunFires ==
    \E t \in autoRun.timers :
        /\ postExecute(t.code)
        /\ autoRun' = [autoRun EXCEPT !.timers = @ \ {t}]
        /\ autoRuns' = autoRuns + 1

\* the hook is rendered with a new source: the user edited the code
codeChanged ==
    /\ mounted
    /\ code < limit.edits
    /\ autoExecute => autoRun.nextId <= limit.arms
    /\ code' = code + 1
    /\ autoRun' = dependenciesChanged(autoRun, autoExecute, autoExecute,
                                      code + 1)
    /\ autoRuns' = 0
    /\ UNCHANGED <<worker, workerRef, created, mounted, consoleOutput,
                   callbacks, stale, limit, autoExecute, ranCode, tabVars>>

\* the hook is rendered with another timeout or onOutput, so that
\* executeCode is a new function (line 41)
executeCodeChanged ==
    /\ mounted
    /\ autoExecute
    /\ autoRun.nextId <= limit.arms
    /\ autoRun' = dependenciesChanged(autoRun, autoExecute, autoExecute, code)
    /\ autoRuns' = 0
    /\ UNCHANGED <<worker, workerRef, created, mounted, consoleOutput,
                   callbacks, stale, limit, code, autoExecute, ranCode,
                   tabVars>>

\* the user switches auto-execute on or off in the settings
autoExecuteChanged ==
    /\ mounted
    /\ limit.arms > 0
    /\ ~autoExecute => autoRun.nextId <= limit.arms
    /\ autoExecute' = ~autoExecute
    /\ autoRun' = dependenciesChanged(autoRun, autoExecute, ~autoExecute,
                                      code)
    /\ autoRuns' = 0
    /\ UNCHANGED <<worker, workerRef, created, mounted, consoleOutput,
                   callbacks, stale, limit, code, ranCode, tabVars>>

\* TabBar's onTabCreate, or Cmd+T
callCreateTab ==
    /\ mounted
    /\ limit.ids > 1
    /\ tabIds < limit.ids \/ Len(tabs) >= MAX_TABS
    /\ LET r == createTab(tabs, activeTabId, tabIds + 1)
       IN  /\ tabs' = r.tabs
           /\ activeTabId' = r.activeTabId
           /\ tabIds' = IF Len(tabs) >= MAX_TABS THEN tabIds ELSE tabIds + 1
    /\ UNCHANGED <<worker, workerRef, created, mounted, consoleOutput,
                   callbacks, stale, limit, editor>>

\* TabBar's onTabClose on a tab, or Cmd+W on the active tab
callCloseTab ==
    /\ mounted
    /\ limit.ids > 1
    /\ \E tabId \in Range(tabs) :
          LET r == closeTab(tabs, activeTabId, tabId)
          IN  /\ tabs' = r.tabs
              /\ activeTabId' = r.activeTabId
    /\ UNCHANGED <<worker, workerRef, created, mounted, consoleOutput,
                   callbacks, stale, limit, editor, tabIds>>

\* TabBar's onTabClick, or Cmd+1..9 (lines 92-94)
switchToTab ==
    /\ mounted
    /\ limit.ids > 1
    /\ \E tabId \in Range(tabs) : activeTabId' = tabId
    /\ UNCHANGED <<worker, workerRef, created, mounted, consoleOutput,
                   callbacks, stale, limit, editor, tabs, tabIds>>

\* workerRef.current.onmessage
onmessage(w) ==
    /\ worker[w].status = "live"
    /\ worker[w].outbox # <<>>
    /\ Head(worker[w].outbox) # ErrorEvent
    /\ worker' = [worker EXCEPT ![w].outbox = Tail(@)]
    /\ IF Head(worker[w].outbox).type = "complete"
       THEN /\ consoleOutput' = onOutput(w, Head(worker[w].outbox))
            /\ callbacks' = [callbacks EXCEPT ![w] = @ + 1]
            /\ stale' = (stale \/ w # workerRef)
       ELSE UNCHANGED <<consoleOutput, callbacks, stale>>
    /\ UNCHANGED <<workerRef, created, mounted, limit, editor, tabVars>>

\* workerRef.current.onerror (src/unnamed/part_002 lines 39-45)
onerror(w) ==
    /\ worker[w].status = "live"
    /\ worker[w].outbox # <<>>
    /\ Head(worker[w].outbox) = ErrorEvent
    /\ worker' = [worker EXCEPT ![w].outbox = Tail(@)]
    /\ consoleOutput' = onOutput(w, WorkerError)
    /\ callbacks' = [callbacks EXCEPT ![w] = @ + 1]
    /\ stale' = (stale \/ w # workerRef)
    /\ UNCHANGED <<workerRef, created, mounted, limit, editor, tabVars>>

\* a variant that leaves the pending timer alone
unmount_KeepsTimer ==
    /\ mounted
    /\ mounted' = FALSE
    /\ worker' = terminateCurrent(worker, workerRef)
    /\ UNCHANGED <<workerRef, created, consoleOutput, callbacks, stale,
                   limit, editor, tabVars>>

\* the hook unmounts: the cleanup of the auto-execute effect (lines
\* 54-58) and the cleanup of the last effect (lines 62-69)
unmount ==
    /\ mounted
    /\ mounted' = FALSE
    /\ worker' = terminateCurrent(worker, workerRef)
    /\ autoRun' = clearAutoRun(autoRun)
    /\ UNCHANGED <<workerRef, created, consoleOutput, callbacks, stale,
                   limit, code, autoExecute, autoRuns, ranCode, tabVars>>

\* a {type: 'terminate'} message posted on the channel of the current worker
postTerminate(w) ==
    /\ mounted
    /\ w = workerRef
    /\ worker[w].status = "live"
    /\ ~worker[w].closing
    /\ worker[w].termSeen
         + Cardinality({i \in DOMAIN worker[w].inbox :
                           worker[w].inbox[i] = "terminate"}) < limit.terms
    /\ Set(w, [worker[w] EXCEPT !.inbox = Append(@, "terminate")])

(* ------------------------ tasks of the worker's loop ------------------- *)

executeMessage(w) ==
    /\ Idle(worker[w])
    /\ worker[w].inbox # <<>>
    /\ Head(worker[w].inbox) = "execute"
    /\ \E compiles \in BOOLEAN :
          Set(w, executeBranch([worker[w] EXCEPT !.inbox = Tail(@)], compiles))

terminateMessage(w) ==
    /\ Idle(worker[w])
    /\ worker[w].inbox # <<>>
    /\ Head(worker[w].inbox) = "terminate"
    /\ Set(w, terminateBranch([worker[w] EXCEPT !.inbox = Tail(@)]))

safetyTimeoutFires(w) ==
    /\ Idle(worker[w])
    /\ \E h \in Handles :
          /\ worker[w].timers[h] = "safety"
          /\ Set(w, safetyTimeoutCallback(worker[w]))

graceFires(w) ==
    /\ Idle(worker[w])
    /\ \E h \in Handles :
          /\ worker[w].timers[h] = "grace"
          /\ Set(w, afterGrace(worker[w], h))

checkIntervalFires(w) ==
    /\ Idle(worker[w])
    /\ \E h \in Handles :
          /\ worker[w].timers[h] = "poll"
          /\ Set(w, checkIntervalCallback(worker[w]))

userTimeoutFires(w) ==
    /\ Idle(worker[w])
    /\ \E h \in Handles :
          /\ worker[w].timers[h] = "timeout"
          /\ Set(w, startTimeoutCallback(worker[w], h))

userIntervalFires(w) ==
    /\ Idle(worker[w])
    /\ \E h \in Handles :
          /\ worker[w].timers[h] = "interval"
          /\ Set(w, startIntervalCallback(worker[w], h))

\* a promise the script body awaits is settled from outside (a fetch answer)
externalSettle(w) ==
    /\ Idle(worker[w])
    /\ worker[w].awaiting
    /\ Set(w, [worker[w] EXCEPT !.awaiting = FALSE,
                                !.stack = Append(@, Frame("main", 0))])

\* the microtask that continues the script body after a callback resolved
\* the promise it awaits
resumeBody(w) ==
    /\ worker[w].status = "live" /\ ~worker[w].closing
    /\ worker[w].stack = <<>> /\ ~worker[w].spin
    /\ worker[w].awaiting /\ worker[w].wake
    /\ Set(w, [worker[w] EXCEPT !.awaiting = FALSE, !.wake = FALSE,
                                !.stack = Append(@, Frame("main", 0))])

(* --------------------- calls made by the user script ------------------- *)
(* The running code (the script body or a timer callback) makes one call   *)
(* of a shim, or ends.                                                     *)

\* the budget lets the script make one more producing call
CanLog(s) == limit.loop <= Len(s.logs) /\ Len(s.logs) < limit.records

\* the script has made fewer dialog calls than the budget allows
CanAsk(s) ==
    Cardinality({i \in DOMAIN s.logs : s.logs[i].content \in Dialogs})
        < limit.dialogs

\* the script has logged fewer thenables than the budget allows
CanLogThenable(s) ==
    Cardinality({i \in DOMAIN s.logs : s.logs[i].content = Placeholder})
        < MaxThenables

callConsoleLog(w) ==
    /\ Running(worker[w])
    /\ CanLog(worker[w])
    /\ \E arg \in limit.args :
          /\ IsThenable(arg) => CanLogThenable(worker[w])
          /\ Set(w, consoleLog(worker[w], arg))

\* the script body starts with a loop of console.log calls
callConsoleLogLoop(w) ==
    /\ Running(worker[w])
    /\ limit.loop > 0
    /\ worker[w].calls = 0
    /\ Set(w, consoleLogLoop(worker[w], limit.loop))

callConsoleError(w) ==
    /\ Running(worker[w])
    /\ CanLog(worker[w])
    /\ \E arg \in limit.args : Set(w, consoleError(worker[w], arg))

callConsoleWarn(w) ==
    /\ Running(worker[w])
    /\ CanLog(worker[w])
    /\ \E arg \in limit.args : Set(w, consoleWarn(worker[w], arg))

callAlert(w) ==
    /\ Running(worker[w])
    /\ CanLog(worker[w]) /\ CanAsk(worker[w])
    /\ Set(w, alert(worker[w]))

callConfirm(w) ==
    /\ Running(worker[w])
    /\ CanLog(worker[w]) /\ CanAsk(worker[w])
    /\ Set(w, confirm(worker[w]))

callPrompt(w) ==
    /\ Running(worker[w])
    /\ CanLog(worker[w]) /\ CanAsk(worker[w])
    /\ \E defaultValue \in Defaults :
          Set(w, prompt(worker[w], defaultValue))

callSetTimeout(w) ==
    /\ Running(worker[w])
    /\ worker[w].made < limit.timers
    /\ Set(w, setTimeoutShim(worker[w]))

callSetInterval(w) ==
    /\ Running(worker[w])
    /\ worker[w].made < limit.timers
    /\ Set(w, setIntervalShim(worker[w]))

callClearTimeout(w) ==
    /\ Running(worker[w])
    /\ \E id \in Handles : Set(w, clearTimeoutShim(worker[w], id))

callClearInterval(w) ==
    /\ Running(worker[w])
    /\ \E id \in Handles : Set(w, clearIntervalShim(worker[w], id))

\* a promise the script has logged is fulfilled: its reaction runs
promiseFulfilled(w) ==
    /\ Idle(worker[w])
    /\ worker[w].promises > 0
    /\ CanLog(worker[w])
    /\ Set(w, [onFulfilled(worker[w]) EXCEPT !.promises = @ - 1])

\* a promise the script has logged is rejected
promiseRejected(w) ==
    /\ Idle(worker[w])
    /\ worker[w].promises > 0
    /\ CanLog(worker[w])
    /\ Set(w, [onRejected(worker[w]) EXCEPT !.promises = @ - 1])

\* a thenable the script has logged calls one of the handlers it holds
thenableCalls(w) ==
    /\ Idle(worker[w])
    /\ worker[w].thenables > 0
    /\ CanLog(worker[w])
    /\ \/ Set(w, onFulfilled(worker[w]))
       \/ Set(w, onRejected(worker[w]))

\* a timer callback resolves the promise the script body awaits
callResolve(w) ==
    /\ Running(worker[w])
    /\ Top(worker[w]).kind # "main"
    /\ worker[w].awaiting /\ ~worker[w].wake
    /\ Set(w, [worker[w] EXCEPT !.wake = TRUE])

\* the script body awaits a promise that is not settled yet
bodyAwaits(w) ==
    /\ Running(worker[w])
    /\ Top(worker[w]).kind = "main"
    /\ Set(w, [Pop(worker[w]) EXCEPT !.awaiting = TRUE])

bodyReturns(w) ==
    /\ Running(worker[w])
    /\ Top(worker[w]).kind = "main"
    /\ Set(w, bodyResolved(worker[w]))

bodyThrows(w) ==
    /\ Running(worker[w])
    /\ Top(worker[w]).kind = "main"
    /\ Set(w, bodyRejected(worker[w]))

callbackReturns(w) ==
    /\ Running(worker[w])
    /\ Top(worker[w]).kind # "main"
    /\ Set(w, endCallback(worker[w]))

\* an exception of a timer callback is caught by nobody in the worker
callbackThrows(w) ==
    /\ Running(worker[w])
    /\ Top(worker[w]).kind # "main"
    /\ worker[w].reported < MaxReports
    /\ Set(w, callbackThrown(worker[w], limit.onerror))

\* the running code enters a loop that never ends (while(true){})
entersLoop(w) ==
    /\ Running(worker[w])
    /\ Set(w, [Inert(worker[w]) EXCEPT !.spin = TRUE])

(* ------------------------------------------------------------------------ *)

EndSegment(w) ==
    \/ bodyAwaits(w) \/ bodyReturns(w) \/ bodyThrows(w)
    \/ callbackReturns(w) \/ callbackThrows(w)

Next ==
    \/ executeCode
    \/ autoRunFires
    \/ codeChanged
    \/ executeCodeChanged
    \/ autoExecuteChanged
    \/ callCreateTab
    \/ callCloseTab
    \/ switchToTab
    \/ unmount
    \/ \E w \in Workers :
          \/ onmessage(w)
          \/ onerror(w)
          \/ postTerminate(w)
          \/ executeMessage(w)
          \/ terminateMessage(w)
          \/ safetyTimeoutFires(w)
          \/ graceFires(w)
          \/ checkIntervalFires(w)
          \/ userTimeoutFires(w)
          \/ userIntervalFires(w)
          \/ externalSettle(w)
          \/ resumeBody(w)
          \/ callConsoleLog(w)
          \/ callConsoleLogLoop(w)
          \/ callConsoleError(w)
          \/ callConsoleWarn(w)
          \/ callAlert(w)
          \/ callConfirm(w)
          \/ callPrompt(w)
          \/ callSetTimeout(w)
          \/ callSetInterval(w)
          \/ callClearTimeout(w)
          \/ callClearInterval(w)
          \/ promiseFulfilled(w)
          \/ promiseRejected(w)
          \/ thenableCalls(w)
          \/ callResolve(w)
          \/ bodyAwaits(w)
          \/ bodyReturns(w)
          \/ bodyThrows(w)
          \/ callbackReturns(w)
          \/ callbackThrows(w)
          \/ entersLoop(w)

Spec == Init /\ [][Next]_vars

\* The event loop of a worker runs every task that is ready, a timer that
\* is armed fires although other tasks keep the loop busy in between, a
\* posted message is dispatched, and every synchronous piece of the script
\* that is not an endless loop ends.  Nothing obliges the host to act or an
\* awaited outside promise to settle.
Fairness ==
    \A w \in Workers :
        /\ WF_vars(onmessage(w))
        /\ WF_vars(onerror(w))
        /\ WF_vars(executeMessage(w))
        /\ WF_vars(terminateMessage(w))
        /\ WF_vars(resumeBody(w))
        /\ WF_vars(EndSegment(w))
        /\ SF_vars(safetyTimeoutFires(w))
        /\ SF_vars(graceFires(w))
        /\ SF_vars(checkIntervalFires(w))
        /\ SF_vars(userTimeoutFires(w))

FairSpec == Spec /\ Fairness

(* ======================================================================= *)
(*                               properties                                *)
(* ======================================================================= *)

Started(w) == worker[w].status = "live" /\ worker[w].phase # "none"

Retired(w) == worker[w].status = "terminated" \/ worker[w].closing

Ordered(q) == \A i \in 1..(Len(q) - 1) : q[i].seq < q[i + 1].seq

(* C1: for every execute request the session emits at most one complete    *)
(* message and onOutput is called at most once, whatever the interleaving  *)
(* of the script's completion, the grace wake-up, the poll and the safety  *)
(* timer.                                                                  *)
C1_AtMostOneComplete ==
    \A w \in Workers : worker[w].emitted <= 1 /\ callbacks[w] <= 1

(* C2: every run that is neither superseded nor terminated, and whose      *)
(* synchronous pieces all end, is eventually answered with a complete      *)
(* message.                                                                *)
C2_EventuallyAnswered ==
    \A w \in Workers :
        Started(w) ~> (worker[w].emitted > 0 \/ Retired(w) \/ worker[w].spin)

(* C3: a script whose synchronous body never returns is still answered:    *)
(* the caller gets a RunResult for it.                                     *)
C3_EndlessLoopAnswered ==
    \A w \in Workers :
        (worker[w].status = "live" /\ worker[w].spin /\ worker[w].emitted = 0)
            ~> (callbacks[w] > 0 \/ Retired(w))

(* C4: a transcript sent by the timeout path ends with an Error record     *)
(* that denotes the execution timeout.                                     *)
C4_TimeoutRecordLast ==
    \A w \in Workers : \A i \in DOMAIN worker[w].outbox :
        worker[w].outbox[i].path = "timeout" =>
            /\ worker[w].outbox[i].logs # <<>>
            /\ Last(worker[w].outbox[i].logs).type = "error"
            /\ Last(worker[w].outbox[i].logs).content = "timeout"

(* C5: once the safety timer has fired, no callback of a timer or interval *)
(* registered through the shims runs any more.                             *)
C5_NoCallbackAfterTimeout ==
    \A w \in Workers : ~worker[w].lateCb

(* C6: onOutput is never called with the transcript of a run that a later  *)
(* executeCode has retired.                                                *)
C6_NoStaleOutput ==
    /\ ~stale
    /\ \A w \in Workers : callbacks[w] > 0 /\ w # workerRef =>
                             worker[w].status = "terminated"

C6_Witness ==
    \E w \in Workers :
        /\ worker[w].status = "terminated" /\ worker[w].dropped
        /\ workerRef # 0 /\ workerRef # w
        /\ callbacks[workerRef] > 0

(* C7: at most one worker is live at any moment; executeCode terminates    *)
(* the previous worker before it creates the next.                         *)
C7_OneLiveWorker ==
    /\ Cardinality({w \in Workers : worker[w].status = "live"}) <= 1
    /\ \A w \in Workers : worker[w].status = "live" => w = workerRef
    /\ \A w \in Workers : w < created => worker[w].status = "terminated"

C7_Witness ==
    /\ created = 2
    /\ worker[1].status = "terminated"
    /\ Started(2)

(* C8: once a terminate request has been processed, the session emits no   *)
(* complete message, whatever state it was in: the safety timer, the grace *)
(* wake-up and the poll are dead; after the hook's unmount no worker is    *)
(* left running.                                                           *)
C8_SilentAfterTerminate ==
    \A w \in Workers :
        /\ worker[w].afterClose = 0
        /\ ~mounted => worker[w].status # "live"

C8_Witness ==
    \E w \in Workers :
        /\ worker[w].closing /\ worker[w].armedAtClose
        /\ worker[w].phase \in {"grace", "poll"}
        /\ worker[w].emitted = 0

(* C9: within a run the transcript only grows at its end (as long as the   *)
(* worker can still run code), and every transcript that leaves the worker *)
(* lists the records in the order of the calls that produced them.         *)
C9_AppendOnly ==
    /\ [](\A w \in Workers :
            /\ Ordered(worker[w].logs)
            /\ \A i \in DOMAIN worker[w].outbox :
                  Ordered(worker[w].outbox[i].logs)
            /\ Ordered(consoleOutput.logs))
    /\ [][\A w \in Workers :
            (worker[w].status = "live" /\ worker'[w].status = "live"
               /\ ~worker'[w].closing /\ ~worker'[w].spin)
            => IsPrefix(worker[w].logs, worker'[w].logs)]_vars

\* a transcript of records made by the script body and by a timer callback
\* is on display, and the run has appended to its transcript since
C9_Witness ==
    /\ Len(consoleOutput.logs) >= 2
    /\ \E w \in Workers :
          /\ consoleOutput.w = w
          /\ Len(worker[w].logs) > Len(consoleOutput.logs)
          /\ worker[w].made > 0

(* C10: the callback of a timer set through the shimmed setTimeout never   *)
(* runs inside the synchronous code that registered it: it starts only     *)
(* when that code has run to its end, so what the code logs after the call *)
(* precedes what the callback logs.                                        *)
C10_CallbackAfterSyncCode ==
    \A w \in Workers : \A i, j \in DOMAIN worker[w].stack :
        i < j => worker[w].stack[j].h \notin worker[w].stack[i].registered

C10_Witness ==
    \E w \in Workers :
        /\ worker[w].stack # <<>>
        /\ Top(worker[w]).kind = "timeout"
        /\ worker[w].phase = "grace"
        /\ Len(worker[w].logs) = 2
        /\ worker[w].calls = 2

\* the "log limit reached" record
Sentinel(r) == r.type = "warn" /\ r.content = "limit"

(* C11: whatever mix of log, error, warn and dialog calls takes a           *)
(* transcript beyond MAX_LOGS records, it then holds the first MAX_LOGS     *)
(* records followed by the limit-reached warning as its last record: the    *)
(* warning is there exactly once and nothing follows it.                    *)
C11_SentinelLast ==
    \A w \in Workers :
        Len(worker[w].logs) > MAX_LOGS =>
            /\ Len(worker[w].logs) = MAX_LOGS + 1
            /\ Sentinel(worker[w].logs[MAX_LOGS + 1])
            /\ \A i \in 1..MAX_LOGS : ~Sentinel(worker[w].logs[i])

(* C12: a transcript never holds more than MAX_LOGS + 1 records, whatever   *)
(* log, error, warn and dialog calls and caught script errors produced      *)
(* them.                                                                    *)
C12_AtMostCapacityPlusOne ==
    \A w \in Workers : Len(worker[w].logs) <= MAX_LOGS + 1

\* timers of the session that are armed
SessionTimers(s) ==
    {h \in Handles : s.timers[h] \in {"safety", "grace", "poll"}}

(* C13: when the source does not compile or the script body throws, the     *)
(* session appends exactly one Error record behind the records logged so    *)
(* far, cancels the safety timer and sends the complete message in the same *)
(* step, with no grace period and no poll; for a source that does not       *)
(* compile the transcript is that Error record alone.                       *)
C13_ThrowCompletesAtOnce ==
    [][\A w \in Workers :
         (/\ worker[w].status = "live" /\ worker'[w].status = "live"
          /\ worker[w].phase \in {"none", "body"}
          /\ worker'[w].phase = "done")
         => LET s == worker[w]
                t == worker'[w]
                before == IF s.phase = "none" THEN <<>> ELSE s.logs
            IN  /\ t.logs = Append(before,
                                   Record("error", "exception", s.calls + 1))
                /\ t.outbox = Append(s.outbox, [type |-> "complete",
                                                logs |-> t.logs,
                                                path |-> "error"])
                /\ t.emitted = s.emitted + 1
                /\ SessionTimers(t) = {}]_vars

\* the body logged, registered a timer and threw before the safety timer
\* fired; the complete message is in flight
C13_Witness ==
    \E w \in Workers :
        /\ worker[w].phase = "done" /\ ~worker[w].timedOut
        /\ worker[w].outbox # <<>>
        /\ Last(worker[w].outbox).path = "error"
        /\ Len(Last(worker[w].outbox).logs) = 3
        /\ Last(Last(worker[w].outbox).logs).content = "exception"
        /\ worker[w].pendingTimers # {}

\* the step appends the Error record of a rejected script
Rejects(w) ==
    /\ worker[w].status = "live" /\ worker'[w].status = "live"
    /\ worker[w].phase = "body"
    /\ Len(worker'[w].logs) = Len(worker[w].logs) + 1
    /\ Last(worker'[w].logs).content = "exception"

(* C14 as stated: a run whose script rejected waits for the grace period    *)
(* and for the pending set to empty, so its complete message is sent only   *)
(* while no timer is pending.                                               *)
C14_RejectionSettles ==
    [][\A w \in Workers :
         (/\ worker[w].status = "live" /\ worker'[w].status = "live"
          /\ worker'[w].emitted > worker[w].emitted
          /\ \E i \in DOMAIN worker'[w].logs :
                worker'[w].logs[i].content = "exception")
         => worker'[w].pendingTimers = {}]_vars

(* C14 amended: when the script's promise rejects, the session appends the  *)
(* reason as an Error record and sends the complete message in that very    *)
(* step, without grace period and without waiting for the pending set to    *)
(* empty; the timers registered before the rejection stay registered and    *)
(* armed, and a transcript sent by this path ends with the Error record:    *)
(* what those timers log later is not in it.                                *)
C14_RejectionCompletesAtOnce ==
    /\ [](\A w \in Workers : \A i \in DOMAIN worker[w].outbox :
            worker[w].outbox[i].path = "error" =>
                Last(worker[w].outbox[i].logs).content = "exception")
    /\ [][\A w \in Workers :
            Rejects(w)
            => /\ worker'[w].phase = "done"
               /\ worker'[w].emitted = worker[w].emitted + 1
               /\ Last(worker'[w].outbox).logs = worker'[w].logs
               /\ worker'[w].pendingTimers = worker[w].pendingTimers
               /\ \A h \in worker[w].pendingTimers :
                     worker'[w].timers[h] = worker[w].timers[h]]_vars

\* the transcript of a rejected run is on display, and a timer registered
\* before the rejection has logged since
C14_Witness ==
    \E w \in Workers :
        /\ consoleOutput.w = w
        /\ consoleOutput.logs # <<>>
        /\ Last(consoleOutput.logs).content = "exception"
        /\ worker[w].emitted = 1 /\ worker[w].outbox = <<>>
        /\ worker[w].made = 1
        /\ Len(worker[w].logs) > Len(consoleOutput.logs)

(* C15: a complete message of the fast path or of the poll path is sent     *)
(* only by the grace wake-up or by a later poll tick, and only while the    *)
(* pending set is empty: no one-shot timer of the script is armed or        *)
(* running any more, and the message carries the whole transcript, so what  *)
(* the one-shot timers that were pending at resolution have logged is in    *)
(* it.                                                                      *)
C15_CompleteWhenNothingPending ==
    [][\A w \in Workers :
         (/\ worker[w].status = "live" /\ worker'[w].status = "live"
          /\ worker'[w].emitted > worker[w].emitted
          /\ Last(worker'[w].outbox).path \in {"fast", "poll"})
         => LET s == worker[w]
                t == worker'[w]
            IN  /\ s.phase = IF Last(t.outbox).path = "fast"
                             THEN "grace" ELSE "poll"
                /\ s.phase = "grace" =>
                      \E h \in Handles : /\ s.timers[h] = "grace"
                                          /\ t.timers[h] = "off"
                /\ s.pendingTimers = {} /\ t.pendingTimers = {}
                /\ s.stack = <<>>
                /\ \A h \in Handles : s.timers[h] # "timeout"
                /\ Last(t.outbox).logs = s.logs
                /\ t.logs = s.logs]_vars

\* the only timer of the script was pending when the grace period ended and
\* has left the pending set before the safety timer fired; the poll has sent
\* the transcript
C15_Witness ==
    \E w \in Workers :
        /\ worker[w].phase = "done" /\ ~worker[w].timedOut
        /\ worker[w].outbox # <<>>
        /\ Last(worker[w].outbox).path = "poll"
        /\ worker[w].made = 1
        /\ Len(Last(worker[w].outbox).logs) = 3

(* C16: the handle of a timer set through the shimmed setTimeout is in the  *)
(* pending set as long as the timer is armed, and once the timer has fired  *)
(* the handle is in the set at most while its callback runs: it is gone     *)
(* when the callback has ended, by a return or by a throw.                  *)
C16_PendingUntilCallbackEnds ==
    \A w \in Workers : \A h \in Handles :
        /\ worker[w].timers[h] = "timeout" => h \in worker[w].pendingTimers
        /\ (h \in worker[w].pendingTimers /\ worker[w].timers[h] = "off")
             => /\ worker[w].stack # <<>>
                /\ Top(worker[w]).kind = "timeout"
                /\ Top(worker[w]).h = h

\* the callback of the only timer of the script has thrown, and the handle
\* has left the pending set while the poll was waiting for it
C16_Witness ==
    \E w \in Workers :
        /\ worker[w].status = "live" /\ ~worker[w].closing
        /\ worker[w].phase = "poll" /\ ~worker[w].timedOut
        /\ worker[w].made = 1 /\ worker[w].reported = 1
        /\ worker[w].stack = <<>>
        /\ worker[w].pendingTimers = {}

(* C17: the handle of an interval set through the shimmed setInterval stays *)
(* in the pending set as long as the interval is armed, whatever number of  *)
(* times it fires, so a run whose script leaves an interval uncleared sends *)
(* no complete message through the fast path or the poll path: neither      *)
(* while the interval is armed nor after the timeout path had to cancel it. *)
C17_IntervalKeepsRunOpen ==
    /\ [](\A w \in Workers : \A h \in Handles :
            worker[w].timers[h] = "interval" => h \in worker[w].pendingTimers)
    /\ [][\A w \in Workers :
            (/\ worker[w].status = "live" /\ worker'[w].status = "live"
             /\ worker'[w].emitted > worker[w].emitted
             /\ Last(worker'[w].outbox).path \in {"fast", "poll"})
            => /\ \A h \in Handles : worker[w].timers[h] # "interval"
               /\ ~worker[w].uncleared]_vars

\* handles a script may pass to a clear function: those of the worker's
\* timers and two that no timer ever had
AnyHandle == 0..(MaxUserTimers + 4)

(* C18: whenever the script can call them, the shimmed clearTimeout and     *)
(* clearInterval take at most the given handle out of the pending set, be   *)
(* the handle pending, fired or never registered, and a second call with    *)
(* the same handle (through either function) leaves the set as the first    *)
(* call left it.                                                            *)
C18_ClearIdempotent ==
    \A w \in Workers : \A id \in AnyHandle :
        Running(worker[w]) =>
            LET s == worker[w]
                a == clearTimeoutShim(s, id)
                b == clearIntervalShim(s, id)
            IN  /\ a.pendingTimers = s.pendingTimers \ {id}
                /\ b.pendingTimers = s.pendingTimers \ {id}
                /\ clearTimeoutShim(a, id).pendingTimers = a.pendingTimers
                /\ clearIntervalShim(a, id).pendingTimers = a.pendingTimers
                /\ clearIntervalShim(b, id).pendingTimers = b.pendingTimers

\* a timer callback has cleared its own handle, which had fired, while
\* another handle is pending and stays so
C18_Witness ==
    \E w \in Workers :
        /\ Running(worker[w])
        /\ Top(worker[w]).kind = "timeout"
        /\ Top(worker[w]).h \notin worker[w].pendingTimers
        /\ worker[w].pendingTimers # {}

\* the worker can still run code of its run
Active(s) == s.status = "live" /\ ~s.closing /\ ~s.spin

(* C19: a worker that has an execute request to handle is in the state of a *)
(* worker just created: empty transcript, empty pending set, no timer       *)
(* armed, nothing sent; and every transcript a run has sent or the host has *)
(* been handed for it is a prefix of that run's own transcript, so no       *)
(* record and no timer of an earlier run is in a later one.                 *)
C19_RunStartsClean ==
    \A w \in Workers :
        /\ (\E i \in DOMAIN worker[w].inbox : worker[w].inbox[i] = "execute")
             => /\ worker[w].phase = "none"
                /\ worker[w].logs = <<>> /\ worker[w].calls = 0
                /\ worker[w].pendingTimers = {}
                /\ \A h \in Handles : worker[w].timers[h] = "off"
                /\ worker[w].outbox = <<>>
        /\ Active(worker[w])
             => /\ \A i \in DOMAIN worker[w].outbox :
                      worker[w].outbox[i] # ErrorEvent
                          => IsPrefix(worker[w].outbox[i].logs, worker[w].logs)
                /\ (consoleOutput.w = w /\ consoleOutput.logs # WorkerError.logs)
                      => IsPrefix(consoleOutput.logs, worker[w].logs)

\* the transcript of the second run is on display; the first run had been
\* answered as well
C19_Witness ==
    /\ created = 2
    /\ worker[1].status = "terminated"
    /\ callbacks[1] > 0
    /\ consoleOutput.w = 2
    /\ consoleOutput.logs # <<>>
    /\ Active(worker[2])

(* C20: an exception thrown inside a timer callback of the script never     *)
(* reaches the host: onOutput is called with the transcript of a complete   *)
(* message only, never with anything made up for the exception.             *)
C20_ExceptionStaysInside ==
    \A i \in DOMAIN consoleOutput.logs :
        consoleOutput.logs[i].content # "Worker error"

(* C21: no call the script makes cancels a timer of the session: while      *)
(* script code runs and goes on running, the safety timer, the grace timer  *)
(* and the poll interval that are armed stay armed.                         *)
C21_SessionTimersExclusive ==
    [][\A w \in Workers :
         (/\ Running(worker[w]) /\ Running(worker'[w])
          /\ worker'[w].stack # <<>>
          /\ Len(worker'[w].stack) = Len(worker[w].stack))
         => SessionTimers(worker[w]) \subseteq SessionTimers(worker'[w])]_vars

(* C22: alert returns no value, confirm returns true, and prompt returns    *)
(* the default value it was given, whatever that value is, and the empty    *)
(* string when it was given none.                                           *)
C22_DialogReturns ==
    \A w \in Workers : \A i \in DOMAIN worker[w].stack :
        LET d == worker[w].stack[i].dialog
        IN  /\ d.fn = "alert" => d.value = "undefined"
            /\ d.fn = "confirm" => d.value = "true"
            /\ d.fn = "prompt" =>
                  d.value = IF d.default = "undefined" THEN "''"
                            ELSE d.default


\* renderings by string coercion of an object that serialises
Coerced == {StringOf(arg) : arg \in {"obj"}}

(* C23: console.log, console.error and console.warn render an argument the
   same way: no record of any of the three kinds holds the string coercion
   of an object that structured serialization can render. *)
C23_SameStringification ==
    \A w \in Workers :
        Active(worker[w]) =>
            \A i \in DOMAIN worker[w].logs :
                worker[w].logs[i].content \notin Coerced


\* the record a handler of console.log's thenable branch appends
FollowUp(r) == r.content \in {"Promise resolved", "Promise rejected"}

(* C26: logging a thenable appends the placeholder record first and at most
   one follow-up record afterwards: in every transcript each follow-up
   record comes after a placeholder, and there are no more follow-up
   records than placeholders. *)
C26_OnePlaceholderOneFollowUp ==
    \A w \in Workers :
        Active(worker[w]) =>
            LET P == {i \in DOMAIN worker[w].logs :
                        worker[w].logs[i].content = Placeholder}
                F == {i \in DOMAIN worker[w].logs :
                        FollowUp(worker[w].logs[i])}
            IN  /\ Cardinality(F) <= Cardinality(P)
                /\ \A f \in F : \E q \in P : q < f


\* the safety timer and the poll interval of the session
Watchdogs(s) == {h \in Handles : s.timers[h] \in {"safety", "poll"}}

(* C25: a completion that is not the timeout (fast path, poll path or error
   path) leaves neither the safety timer nor the poll interval armed in the
   step that sends it, and once the session is done neither is armed again
   and no further complete message is sent. *)
C25_CompletionCancelsWatchdogs ==
    [][\A w \in Workers :
         LET s == worker[w]
             t == worker'[w]
         IN  (s.status = "live" /\ t.status = "live")
             => /\ (/\ t.emitted = s.emitted + 1
                     /\ Last(t.outbox).path # "timeout")
                    => Watchdogs(t) = {}
                /\ (s.phase = "done" /\ t.phase = "done")
                    => (Watchdogs(t) = {} /\ t.emitted = s.emitted)]_vars

\* the poll found the pending set empty and sent the transcript; the
\* worker goes on running tasks afterwards
C25_Witness ==
    \E w \in Workers :
        /\ Active(worker[w])
        /\ worker[w].phase = "done" /\ ~worker[w].timedOut
        /\ worker[w].outbox # <<>>
        /\ Last(worker[w].outbox).path = "poll"
        /\ worker[w].checkInterval \in Handles
        /\ worker[w].safetyTimeout \in Handles


\* execute requests the host has posted to a worker: those waiting in its
\* inbox and the one its listener has taken
Posted(s) ==
    Cardinality({i \in DOMAIN s.inbox : s.inbox[i] = "execute"})
        + (IF s.phase = "none" THEN 0 ELSE 1)

(* C27: every worker that is alive has been posted exactly one execute
   request and is the worker the hook refers to, a worker not created yet
   has been posted none, and no worker has more than one safety timer
   armed: no worker serves two runs. *)
C27_OneRunPerWorker ==
    \A w \in Workers :
        /\ worker[w].status = "live"
             => (Posted(worker[w]) = 1 /\ w = workerRef /\ w <= created)
        /\ w > created
             => (worker[w].status = "none" /\ Posted(worker[w]) = 0)
        /\ Cardinality({h \in Handles : worker[w].timers[h] = "safety"}) <= 1

\* the second run is in its body with its safety timer armed in a worker
\* of its own; the worker of the first run was terminated
C27_Witness ==
    /\ created = 2 /\ workerRef = 2
    /\ worker[1].status = "terminated"
    /\ worker[2].status = "live"
    /\ worker[2].phase = "body"
    /\ worker[2].inbox = <<>>
    /\ worker[2].safetyTimeout \in Handles
    /\ worker[2].timers[worker[2].safetyTimeout] = "safety"


(* C24: the number of tabs stays between 1 and MAX_TABS; createTab with
   MAX_TABS tabs leaves the list and the active tab as they are, and
   closeTab on the only tab leaves the list as it is and returns
   'quit-app'. *)
C24_TabCountBounded ==
    /\ Len(tabs) >= 1
    /\ Len(tabs) <= MAX_TABS
    /\ Len(tabs) = MAX_TABS
         => createTab(tabs, activeTabId, tabIds + 1)
               = [tabs |-> tabs, activeTabId |-> activeTabId]
    /\ Len(tabs) = 1
         => closeTab(tabs, activeTabId, tabs[1])
               = [tabs |-> tabs, activeTabId |-> activeTabId,
                  result |-> "quit-app"]

\* the list is full and the user has gone back to the first tab
C24_Witness ==
    /\ Len(tabs) = MAX_TABS
    /\ activeTabId = tabs[1]

(* C28: at most one timer of the auto-execute effect is pending, it is the
   one timeoutRef holds, it was armed for the latest source and only while
   auto-execute is on; the timer starts at most one run per render that
   changed a dependency of the effect, with the latest source, and leaves
   no timer pending. *)
C28_OneAutoRunPerChange ==
    /\ Cardinality(autoRun.timers) <= 1
    /\ \A t \in autoRun.timers :
          /\ t.id = autoRun.timeoutRef
          /\ t.code = code
          /\ mounted
    /\ ~autoExecute => autoRun.timers = {}
    /\ autoRuns <= 1
    /\ autoRuns = 1 => (ranCode = code /\ autoRun.timers = {})

\* two edits in a row, then the one run the timer started, with the
\* source of the second edit
C28_Witness ==
    /\ code = MaxEdits
    /\ created = 1
    /\ autoRuns = 1
    /\ ranCode = MaxEdits
    /\ callbacks[1] > 0

(* C29: when the hook has unmounted no timer of the auto-execute effect is
   pending and no worker is alive, and from then on no run is started and
   onOutput is not called. *)
C29_QuietAfterUnmount ==
    [][~mounted' =>
         /\ autoRun'.timers = {}
         /\ \A w \in Workers : worker'[w].status # "live"
         /\ ~mounted => /\ created' = created
                         /\ callbacks' = callbacks
                         /\ consoleOutput' = consoleOutput]_vars

\* the hook unmounted while the timer armed by the last edit was pending
\* and the worker of a run had a message in flight
C29_Witness ==
    /\ ~mounted
    /\ autoExecute /\ code > 0 /\ autoRuns = 0
    /\ workerRef # 0
    /\ worker[workerRef].status = "terminated"
    /\ worker[workerRef].dropped

(* C30: the active tab id is the id of a tab in the list; closing the
   active tab activates the tab that takes its place in the list, or the
   last tab if the closed one was last, and closing another tab leaves the
   active tab as it is. *)
C30_ActiveTabExists ==
    /\ activeTabId \in Range(tabs)
    /\ \A tabId \in Range(tabs) :
          LET r == closeTab(tabs, activeTabId, tabId)
              i == findIndex(tabs, tabId)
          IN  /\ r.activeTabId \in Range(r.tabs)
              /\ (tabId = activeTabId /\ Len(tabs) > 1)
                    => r.activeTabId = IF i < Len(tabs) THEN tabs[i + 1]
                                       ELSE tabs[i - 1]
              /\ tabId # activeTabId => r.activeTabId = activeTabId

\* the second of three tabs was closed and the third is active
C30_Witness ==
    /\ tabs = <<1, 3>>
    /\ activeTabId = 3
    /\ tabIds = 3

=============================================================================
